---- MODULE Spec2Model ----
(***************************************************************************)
(* Market-intelligence price engine of mikegyamfi/emi:                     *)
(* PriceListing.save, the post_save receiver snapshot_price, the           *)
(* ListingViewSet write path and the PriceHistory admin.                   *)
(*                                                                         *)
(* The database runs in autocommit mode (settings.py sets no               *)
(* ATOMIC_REQUESTS and market_intelligence opens no transaction.atomic),   *)
(* so every INSERT / UPDATE / aggregate SELECT issued by one save() is a   *)
(* step of its own, and steps of concurrent requests interleave.           *)
(* Prices are DecimalField(decimal_places=2) values, held here in minor    *)
(* units (1000 is 10.00).                                                  *)
(***************************************************************************)
EXTENDS Integers, Sequences, FiniteSets, TLC

VARIABLES
    listing,        \* table price_listing: pk -> row
    history,        \* table price_history: rows in insertion (id) order
    nextListingId,  \* AutoField sequence of price_listing
    nextHistId,     \* AutoField sequence of price_history
    pc,             \* per request worker: position inside the handler
    inst,           \* per request worker: the in-memory PriceListing instance
    op,             \* per request worker: the request being served and what it saw
    lastDone,       \* the worker whose request finished in the latest step
    opsStarted,     \* number of requests started so far
    disturbances    \* number of requests that raised, plus number of deletes

vars == << listing, history, nextListingId, nextHistId,
           pc, inst, op, lastDone, opsStarted, disturbances >>

----------------------------------------------------------------------------
(* Bounds *)

MaxOps == 2
MaxListings == 2

Workers == {"w1", "w2"}
Prices == {0, 1000, 1500}
Currencies == {"GHS", "USD"}
NoFields == {}
\* the slice [:90] of the price-history view
HistoryLimit == 90
\* top_n of get_high_jump_months / get_high_drop_months / get_volatile_months
TopN == 5
\* top_n of get_stable_quarters
StableTopN == 3
\* Month labels in calendar order, and in the order of their strings.
MonthLabels == << "Jan", "Feb", "Mar", "Apr", "May", "Jun",
                 "Jul", "Aug", "Sep", "Oct", "Nov", "Dec" >>
LabelsAsStrings == << "Apr", "Aug", "Dec", "Feb", "Jan", "Jul",
                     "Jun", "Mar", "May", "Nov", "Oct", "Sep" >>
\* Histories the analytics are evaluated on: up to MaxRows rows of one
\* listing, in id order, recorded in the months Stamps.
MaxRows == 3
Stamps == {0, 1, 2, 12}
AnalyticsPrices == {1000, 2000}
\* Histories the curves and rankings are evaluated on: none to MaxRows
\* rows, recorded in two quarters of one year and in the next year, at
\* prices that include 0.00.
CurveStamps == {0, 1, 3, 12}
CurvePrices == {0, 1000, 2000}

\* A NULL foreign key (None on the instance); primary keys start at 1.
None == 0
\* The product, service, town and market rows a listing can reference.
RefIds == {1}
RefFields == {"product", "service", "town", "market"}
AggregateFields == {"average_price", "lowest_price", "highest_price"}
\* Reference attributes of a request: a value for each key it carries.
AttrsOver(keys) == [keys -> RefIds \cup {None}]
NoAttrs == [k \in {} |-> None]
\* The reference keys a PATCH may carry.
PatchKeys == {{}, {"product"}, {"service"}, {"product", "service"},
              {"town"}, {"market"}}
\* Prices a client may send: the price field accepts either sign.
ApiPrices == {-500, 1000}
\* Values a client may send under the keys average_price, lowest_price
\* and highest_price.
ClientAggregates == {9900}
\* A product listing anchored to a town, a service listing anchored to a
\* market.
ProductInTown == [product |-> 1, service |-> None, town |-> 1, market |-> None]
ServiceInMarket == [product |-> None, service |-> 1, town |-> None, market |-> 1]

----------------------------------------------------------------------------
(* Pure helpers *)

RECURSIVE SumPrices(_)
SumPrices(rows) ==
    IF rows = << >> THEN 0 ELSE Head(rows).price + SumPrices(Tail(rows))

RowPrices(rows) == {rows[i].price : i \in 1..Len(rows)}

MinOf(S) == CHOOSE x \in S : \A y \in S : x <= y
MaxOf(S) == CHOOSE x \in S : \A y \in S : x >= y

\* Decimal quantize to two places under the default context (ROUND_HALF_EVEN)
\* of the quotient num / den, for den > 0, in minor units (\div rounds
\* down, so the remainder r is never negative).
Quantize(num, den) ==
    LET q == num \div den
        r == num % den
    IN  IF 2 * r < den THEN q
        ELSE IF 2 * r > den THEN q + 1
        ELSE IF q % 2 = 0 THEN q ELSE q + 1

\* An SQL aggregate value: NULL over no rows.
SqlNull == [null |-> TRUE, val |-> 0]
SqlVal(v) == [null |-> FALSE, val |-> v]

\* Python `a or b` for a Decimal-or-None a: None and Decimal(0) are falsy.
OrElse(a, b) == IF a.null \/ a.val = 0 THEN b ELSE a.val

\* Python `s or d` for a string s.
StrOr(s, d) == IF s = "" THEN d ELSE s

\* listing.history: the reverse FK manager, rows of one listing in id order.
HistoryOf(l) == SelectSeq(history, LAMBDA r : r.listing = l)

\* (variant of AvgPrice: the sum of the prices, never divided by their number)
AvgPriceSum(rows) ==
    IF rows = << >> THEN SqlNull ELSE SqlVal(SumPrices(rows))

AvgPrice(rows) ==
    IF rows = << >> THEN SqlNull ELSE SqlVal(Quantize(SumPrices(rows), Len(rows)))

MinPrice(rows) ==
    IF rows = << >> THEN SqlNull ELSE SqlVal(MinOf(RowPrices(rows)))

MaxPrice(rows) ==
    IF rows = << >> THEN SqlNull ELSE SqlVal(MaxOf(RowPrices(rows)))

\* PriceListing._recalc_stats: the instance after the aggregate query.
RecalcStats(self, rows) ==
    [self EXCEPT !.average_price = OrElse(AvgPrice(rows), self.price),
                 !.lowest_price  = OrElse(MinPrice(rows), self.price),
                 !.highest_price = OrElse(MaxPrice(rows), self.price)]

\* The database row an instance is written as.
RowOf(self) ==
    [product |-> self.product, service |-> self.service,
     town |-> self.town, market |-> self.market,
     price |-> self.price, currency |-> self.currency, status |-> self.status,
     average_price |-> self.average_price,
     lowest_price |-> self.lowest_price,
     highest_price |-> self.highest_price]

\* The instance a SELECT of row l yields.
Load(l) ==
    [pk |-> l, is_new |-> FALSE, update_fields |-> NoFields,
     product |-> listing[l].product, service |-> listing[l].service,
     town |-> listing[l].town, market |-> listing[l].market,
     price |-> listing[l].price, currency |-> listing[l].currency,
     status |-> listing[l].status,
     average_price |-> listing[l].average_price,
     lowest_price |-> listing[l].lowest_price,
     highest_price |-> listing[l].highest_price]

NoInst ==
    [pk |-> 0, is_new |-> FALSE, update_fields |-> NoFields,
     product |-> None, service |-> None, town |-> None, market |-> None,
     price |-> 0, currency |-> "GHS", status |-> TRUE,
     average_price |-> 0, lowest_price |-> 0, highest_price |-> 0]

NoRow ==
    [product |-> None, service |-> None, town |-> None, market |-> None,
     price |-> 0, currency |-> "", status |-> FALSE,
     average_price |-> 0, lowest_price |-> 0, highest_price |-> 0]

NoOp ==
    [kind |-> "none", result |-> "none", existed |-> FALSE,
     pre |-> NoRow, preHist |-> << >>, rows |-> {}, attrs |-> NoAttrs,
     price |-> 0, view |-> << >>]

----------------------------------------------------------------------------
(* ListingSerializer *)

\* ListingSerializer.Meta.fields without the read-only ones (id, kind and
\* the nested product / service / town / market); the *_id fields are named
\* here by their source attribute.
WritableFields == {"price", "currency", "note", "status",
                   "product", "service", "town", "market"}

\* Request data that also carries the three aggregates, all set to v.
WithAggregates(data, v) ==
    [k \in DOMAIN data \cup AggregateFields |->
        IF k \in AggregateFields THEN v ELSE data[k]]

\* The request bodies over the reference attributes in `refs`: each as it
\* is, and with client-supplied aggregates added.
Bodies(refs) ==
    refs \cup {WithAggregates(a, v) : a \in refs, v \in ClientAggregates}

\* (variant of ToInternalValue: every key of the request is taken over)
ToInternalValueAll(data) == data

\* Serializer.to_internal_value: only the declared writable fields are
\* read from the request; any other key of the body is ignored.
ToInternalValue(data) ==
    [k \in DOMAIN data \cap WritableFields |-> data[k]]

\* attrs.get(k): the validated value of a reference field, None when the
\* request does not carry the key (a PATCH).
Get(attrs, k) == IF k \in DOMAIN attrs THEN attrs[k] ELSE None

\* Python `a or b` for a model instance or None.
RefOr(a, b) == IF a = None THEN b ELSE a

\* (variant of Validate: the stem rule is not applied)
ValidateGeoOnly(attrs, instance) ==
    LET town == RefOr(Get(attrs, "town"), instance.town)
        market == RefOr(Get(attrs, "market"), instance.market)
    IN  IF town = None /\ market = None THEN "geo_required" ELSE "ok"

\* (variant of Validate: the geo-anchor rule is not applied)
ValidateStemOnly(attrs, instance) ==
    LET prod == RefOr(Get(attrs, "product"), instance.product)
        serv == RefOr(Get(attrs, "service"), instance.service)
    IN  IF (prod # None) = (serv # None) THEN "stem_xor" ELSE "ok"

\* ListingSerializer.validate: "ok" when attrs is returned, otherwise the
\* ValidationError raised.  instance is self.instance, NoInst on create
\* (getattr(None, ..., None) is None).
Validate(attrs, instance) ==
    LET prod == RefOr(Get(attrs, "product"), instance.product)
        serv == RefOr(Get(attrs, "service"), instance.service)
        town == RefOr(Get(attrs, "town"), instance.town)
        market == RefOr(Get(attrs, "market"), instance.market)
    IN  IF (prod # None) = (serv # None) THEN "stem_xor"
        ELSE IF town = None /\ market = None THEN "geo_required"
        ELSE "ok"

\* ModelSerializer.create / update: the validated attributes set on the
\* instance; a key the request does not carry keeps the instance's value.
SetAttrs(self, attrs) ==
    [k \in DOMAIN self |-> IF k \in DOMAIN attrs THEN attrs[k] ELSE self[k]]

\* PriceListing.Meta.constraints: price_listing_exactly_one_stem and
\* price_listing_needs_town_or_market, checked by the database on every
\* INSERT and UPDATE of a row.
CheckConstraints(row) ==
    /\ \/ row.product # None /\ row.service = None
       \/ row.product = None /\ row.service # None
    /\ row.town # None \/ row.market # None

\* price_changed of PriceListing.save
PriceChanged(self) == self.is_new \/ "price" \in self.update_fields

----------------------------------------------------------------------------
(* Table writes *)

PutRow(l, row) ==
    [i \in DOMAIN listing \cup {l} |-> IF i = l THEN row ELSE listing[i]]

DropRow(l) == [i \in DOMAIN listing \ {l} |-> listing[i]]

\* UPDATE of the columns named in update_fields only
UpdateColumns(l, self, fields) ==
    [listing EXCEPT ![l] =
        [product |-> IF "product" \in fields THEN self.product ELSE @.product,
         service |-> IF "service" \in fields THEN self.service ELSE @.service,
         town |-> IF "town" \in fields THEN self.town ELSE @.town,
         market |-> IF "market" \in fields THEN self.market ELSE @.market,
         price |-> IF "price" \in fields THEN self.price ELSE @.price,
         currency |-> IF "currency" \in fields THEN self.currency ELSE @.currency,
         status |-> IF "status" \in fields THEN self.status ELSE @.status,
         average_price |-> IF "average_price" \in fields
                           THEN self.average_price ELSE @.average_price,
         lowest_price |-> IF "lowest_price" \in fields
                          THEN self.lowest_price ELSE @.lowest_price,
         highest_price |-> IF "highest_price" \in fields
                           THEN self.highest_price ELSE @.highest_price]]

\* (variant of HistoryRow: the row is attached to the first listing)
HistoryRowOfFirst(l, p, c, t) ==
    [id |-> nextHistId, listing |-> 1, price |-> p, currency |-> c,
     recorded_at |-> t]

HistoryRow(l, p, c, t) ==
    [id |-> nextHistId, listing |-> l, price |-> p, currency |-> c,
     recorded_at |-> t]

\* timezone.now(): the clock is read at the granularity of the arrivals of
\* write requests, so rows written while no new one arrives share one
\* recorded_at.
Now == opsStarted

Busy == {w \in Workers : pc[w] # "idle"}

----------------------------------------------------------------------------
Init ==
    /\ listing = [i \in {} |-> NoRow]
    /\ history = << >>
    /\ nextListingId = 1
    /\ nextHistId = 1
    /\ pc = [w \in Workers |-> "idle"]
    /\ inst = [w \in Workers |-> NoInst]
    /\ op = [w \in Workers |-> NoOp]
    /\ lastDone = "none"
    /\ opsStarted = 0
    /\ disturbances = 0

\* The state one completed create of a listing at 10.00 GHS leaves behind
\* (reached from Init by CreateListing .. SnapshotPrice): the starting point
\* for requests that meet on an existing listing.
InitSeeded ==
    /\ listing = [i \in {1} |->
                    [product |-> 1, service |-> None,
                     town |-> 1, market |-> None,
                     price |-> 1000, currency |-> "GHS", status |-> TRUE,
                     average_price |-> 1000, lowest_price |-> 1000,
                     highest_price |-> 1000]]
    /\ history = [i \in 1..3 |->
                    [id |-> i, listing |-> 1, price |-> 1000,
                     currency |-> "GHS", recorded_at |-> 0]]
    /\ nextListingId = 2
    /\ nextHistId = 4
    /\ pc = [w \in Workers |-> "idle"]
    /\ inst = [w \in Workers |-> NoInst]
    /\ op = [w \in Workers |-> NoOp]
    /\ lastDone = "none"
    /\ opsStarted = 0
    /\ disturbances = 0

----------------------------------------------------------------------------
(* Request entry points *)

\* The request a worker serves: what it asked for (kind, body, price) and
\* what the target listing looked like when it arrived.
Request(kind, l, data, p, result) ==
    [kind |-> kind, result |-> result,
     existed |-> l \in DOMAIN listing,
     pre |-> IF l \in DOMAIN listing THEN listing[l] ELSE NoRow,
     preHist |-> HistoryOf(l),
     rows |-> {}, attrs |-> data, price |-> p, view |-> << >>]

Start(w, kind, self, l, data) ==
    /\ pc[w] = "idle"
    /\ opsStarted < MaxOps
    /\ opsStarted' = opsStarted + 1
    /\ inst' = [inst EXCEPT ![w] = self]
    /\ op' = [op EXCEPT ![w] =
                Request(kind, l, data, self.price, "running")]
    /\ pc' = [pc EXCEPT ![w] = "save_row"]
    /\ lastDone' = "none"
    /\ UNCHANGED << listing, history, nextListingId, nextHistId, disturbances >>

\* serializer.is_valid(raise_exception=True) raises: the response is 400
\* and the handler has issued no write.
Reject(w, kind, l, data, p) ==
    /\ pc[w] = "idle"
    /\ opsStarted < MaxOps
    /\ opsStarted' = opsStarted + 1
    /\ op' = [op EXCEPT ![w] =
                Request(kind, l, data, p, "validation_error")]
    /\ lastDone' = w
    /\ disturbances' = disturbances + 1
    /\ UNCHANGED << listing, history, nextListingId, nextHistId, pc, inst >>

\* ListingViewSet.create -> ListingSerializer.validate ->
\* ModelSerializer.create -> PriceListing.save, up to the pre-population
\* of the aggregates (models.py 205-212).  attrs carries the four
\* reference fields (each is required, each may be null); the price field
\* is the DecimalField(max_digits=10, decimal_places=2) built from the
\* model field and has no minimum.  The listing is created with the
\* default status (active).
CreateListing(w, p, c, data) ==
    /\ nextListingId
         + Cardinality({v \in Workers : pc[v] = "save_row" /\ inst[v].is_new})
       <= MaxListings
    /\ LET attrs == ToInternalValue(data) IN
       IF Validate(attrs, NoInst) # "ok"
       THEN Reject(w, "create", 0, data, p)
       ELSE LET initial == OrElse(SqlVal(p), 0)
                new == SetAttrs([NoInst EXCEPT !.is_new = TRUE, !.price = p,
                                               !.currency = c], attrs)
            IN  Start(w, "create",
                      [new EXCEPT !.average_price = initial,
                                  !.lowest_price = initial,
                                  !.highest_price = initial],
                      0, data)

\* ListingViewSet.update / partial_update: get_object(),
\* ListingSerializer.validate against the loaded instance, setattr of the
\* validated fields (a field the request omits keeps the loaded value),
\* instance.save() without update_fields.
UpdateListing(w, l, p, c, s, data) ==
    /\ l \in DOMAIN listing
    /\ LET attrs == ToInternalValue(data) IN
       IF Validate(attrs, Load(l)) # "ok"
       THEN Reject(w, "update", l, data, p)
       ELSE Start(w, "update",
                  SetAttrs([Load(l) EXCEPT !.price = p, !.currency = c,
                                           !.status = s], attrs),
                  l, data)

\* listing.price = p; listing.save(update_fields=["price"])
SavePrice(w, l, p) ==
    /\ l \in DOMAIN listing
    /\ Start(w, "save_price",
             [Load(l) EXCEPT !.price = p, !.update_fields = {"price"}], l,
             NoAttrs)

----------------------------------------------------------------------------
(* Steps of PriceListing.save *)

Finish(w, result) ==
    /\ pc' = [pc EXCEPT ![w] = "idle"]
    /\ op' = [op EXCEPT ![w].result = result]
    /\ lastDone' = w
    /\ disturbances' = disturbances + 1

\* super().save(*args, **kwargs): the INSERT or UPDATE of the listing row
SaveRow(w) ==
    /\ pc[w] = "save_row"
    /\ LET self == inst[w] IN
       IF self.update_fields = NoFields /\ ~CheckConstraints(RowOf(self))
       THEN \* IntegrityError: the INSERT / UPDATE violates a CheckConstraint
            /\ Finish(w, "integrity_error")
            /\ UNCHANGED << listing, nextListingId, inst >>
       ELSE IF self.is_new
       THEN /\ listing' = PutRow(nextListingId, RowOf(self))
            /\ nextListingId' = nextListingId + 1
            /\ inst' = [inst EXCEPT ![w].pk = nextListingId]
            /\ pc' = [pc EXCEPT ![w] = "signal1"]
            /\ lastDone' = "none"
            /\ UNCHANGED << op, disturbances >>
       ELSE IF self.update_fields = NoFields
       THEN \* UPDATE of every column; Django INSERTs when no row matched
            /\ listing' = PutRow(self.pk, RowOf(self))
            /\ pc' = [pc EXCEPT ![w] = "signal1"]
            /\ lastDone' = "none"
            /\ UNCHANGED << nextListingId, inst, op, disturbances >>
       ELSE IF self.pk \in DOMAIN listing
       THEN /\ listing' = UpdateColumns(self.pk, self, self.update_fields)
            /\ pc' = [pc EXCEPT ![w] = "signal1"]
            /\ lastDone' = "none"
            /\ UNCHANGED << nextListingId, inst, op, disturbances >>
       ELSE \* DatabaseError: save with update_fields did not affect any rows
            /\ Finish(w, "db_error")
            /\ UNCHANGED << listing, nextListingId, inst >>
    /\ UNCHANGED << history, nextHistId, opsStarted >>

\* PriceHistory.objects.create(...): one INSERT; the FK to the listing
\* must be satisfied.
InsertHistory(w, p, c, t, next) ==
    /\ inst[w].pk \in DOMAIN listing
    /\ history' = Append(history, HistoryRow(inst[w].pk, p, c, t))
    /\ nextHistId' = nextHistId + 1
    /\ IF next = "idle"
       THEN /\ pc' = [pc EXCEPT ![w] = "idle"]
            /\ op' = [op EXCEPT ![w].result = "ok",
                                ![w].rows = @ \cup {nextHistId}]
            /\ lastDone' = w
       ELSE /\ pc' = [pc EXCEPT ![w] = next]
            /\ op' = [op EXCEPT ![w].rows = @ \cup {nextHistId}]
            /\ lastDone' = "none"
    /\ UNCHANGED << listing, nextListingId, inst, opsStarted, disturbances >>

\* (variant of SnapshotPrice: the receiver records active listings only)
SnapshotActiveOnly(w) ==
    /\ pc[w] \in {"signal1", "signal2"}
    /\ IF inst[w].status
       THEN InsertHistory(w, inst[w].price, StrOr(inst[w].currency, "GHS"), Now,
                          IF pc[w] = "signal1" /\ PriceChanged(inst[w])
                          THEN "explicit" ELSE "idle")
       ELSE /\ pc' = [pc EXCEPT ![w] = IF pc[w] = "signal1" /\ PriceChanged(inst[w])
                                       THEN "explicit" ELSE "idle"]
            /\ op' = [op EXCEPT ![w].result =
                         IF pc'[w] = "idle" THEN "ok" ELSE @]
            /\ lastDone' = IF pc'[w] = "idle" THEN w ELSE "none"
            /\ UNCHANGED << listing, history, nextListingId, nextHistId,
                            inst, opsStarted, disturbances >>

\* post_save receiver snapshot_price, fired by each super().save()
SnapshotPrice(w) ==
    /\ pc[w] \in {"signal1", "signal2"}
    /\ InsertHistory(w, inst[w].price, StrOr(inst[w].currency, "GHS"), Now,
                     IF pc[w] = "signal1" /\ PriceChanged(inst[w])
                     THEN "explicit" ELSE "idle")

\* the explicit PriceHistory.objects.create of save (models.py 218-223)
AppendHistory(w) ==
    /\ pc[w] = "explicit"
    /\ InsertHistory(w, inst[w].price, inst[w].currency, Now, "recalc")

\* an INSERT into price_history raises: the exception leaves save()
FailAppend(w) ==
    /\ pc[w] \in {"signal1", "explicit", "signal2"}
    /\ Finish(w, "append_failed")
    /\ UNCHANGED << listing, history, nextListingId, nextHistId,
                    inst, opsStarted >>

\* self._recalc_stats(): the aggregate SELECT over listing.history
Recalc(w) ==
    /\ pc[w] = "recalc"
    /\ inst' = [inst EXCEPT ![w] = RecalcStats(@, HistoryOf(@.pk))]
    /\ pc' = [pc EXCEPT ![w] = "save_stats"]
    /\ lastDone' = "none"
    /\ UNCHANGED << listing, history, nextListingId, nextHistId,
                    op, opsStarted, disturbances >>

\* super().save(update_fields=("average_price","lowest_price","highest_price"))
SaveStats(w) ==
    /\ pc[w] = "save_stats"
    /\ IF inst[w].pk \in DOMAIN listing
       THEN /\ listing' = UpdateColumns(inst[w].pk, inst[w], AggregateFields)
            /\ pc' = [pc EXCEPT ![w] = "signal2"]
            /\ lastDone' = "none"
            /\ UNCHANGED << op, disturbances >>
       ELSE /\ Finish(w, "db_error")
            /\ UNCHANGED listing
    /\ UNCHANGED << history, nextListingId, nextHistId, inst,
                    opsStarted >>

----------------------------------------------------------------------------
(* The price-history view *)

\* queryset[:n]
Take(rows, n) == SubSeq(rows, 1, IF Len(rows) < n THEN Len(rows) ELSE n)

\* The sequences in which a database may return the rows S for
\* order_by("-recorded_at"): descending recorded_at, rows with equal
\* recorded_at in any order (the query names no further sort key).
RECURSIVE OrderByRecordedAtDesc(_)
OrderByRecordedAtDesc(S) ==
    IF S = {} THEN {<< >>}
    ELSE UNION {{<< r >> \o t : t \in OrderByRecordedAtDesc(S \ {r})} :
                r \in {x \in S : \A y \in S : y.recorded_at <= x.recorded_at}}

\* PricePointSerializer / .values("price", "currency", "recorded_at")
PricePoint(r) ==
    [price |-> r.price, currency |-> r.currency, recorded_at |-> r.recorded_at]

PricePoints(rows) == [i \in 1..Len(rows) |-> PricePoint(rows[i])]

\* ListingAnalyticsSerializer.get_price_history and
\* ListingWithHistorySerializer.get_price_history (the same query):
\* obj.history.order_by("-recorded_at")[:90], serialized.
GetPriceHistory(w, l) ==
    /\ pc[w] = "idle"
    /\ l \in DOMAIN listing
    /\ \E rows \in OrderByRecordedAtDesc({history[i] : i \in
                       {j \in 1..Len(history) : history[j].listing = l}}) :
          op' = [op EXCEPT ![w] =
                   [Request("retrieve", l, NoAttrs, listing[l].price, "ok")
                      EXCEPT !.view = PricePoints(Take(rows, HistoryLimit))]]
    /\ lastDone' = w
    /\ UNCHANGED << listing, history, nextListingId, nextHistId, pc, inst,
                    opsStarted, disturbances >>

----------------------------------------------------------------------------
(* The monthly analytics of ListingAnalyticsSerializer *)

\* For the analytics recorded_at counts calendar months, from January of
\* year 0.  ts.dt.year, and ts.dt.month_name().str[:3]:
YearOf(t) == t \div Len(MonthLabels)
MonthOf(t) == MonthLabels[(t % Len(MonthLabels)) + 1]

\* Position of a label in a sequence of labels.
IndexIn(labels, m) == CHOOSE i \in 1..Len(labels) : labels[i] = m

\* sort_values on the month column compares the labels as strings.
StringRank == [m \in {MonthLabels[i] : i \in 1..Len(MonthLabels)} |->
                  IndexIn(LabelsAsStrings, m)]

RECURSIVE Gcd(_, _)
Gcd(a, b) == IF b = 0 THEN a ELSE Gcd(b, a % b)

\* A float of the analytics: not-a-number, an infinity, or the number
\* num / den (den > 0, in lowest terms).
NaN == [kind |-> "nan", num |-> 0, den |-> 1]
Inf(sign) == [kind |-> "inf", num |-> sign, den |-> 1]
Num(n, d) ==
    LET a == IF n < 0 THEN -n ELSE n
        b == IF d < 0 THEN -d ELSE d
        g == Gcd(a, b)
        sgn == IF (n < 0) # (d < 0) THEN -1 ELSE 1
    IN  [kind |-> "num", num |-> sgn * (a \div g), den |-> b \div g]

\* a / b for floats: x / 0.0 is an infinity, 0.0 / 0.0 is not a number
Div(a, b) ==
    IF a.kind # "num" \/ b.kind # "num" THEN NaN
    ELSE IF b.num = 0
    THEN IF a.num = 0 THEN NaN ELSE Inf(IF a.num > 0 THEN 1 ELSE -1)
    ELSE Num(a.num * b.den, a.den * b.num)

Minus(a, b) ==
    IF a.kind # "num" \/ b.kind # "num" THEN NaN
    ELSE Num(a.num * b.den - b.num * a.den, a.den * b.den)

Times(a, k) ==
    IF a.kind = "num" THEN Num(a.num * k, a.den)
    ELSE IF a.kind = "inf" THEN Inf(IF k < 0 THEN -a.num ELSE a.num)
    ELSE NaN

\* a < b for floats (false when either is not a number)
Less(a, b) ==
    IF a.kind = "nan" \/ b.kind = "nan" THEN FALSE
    ELSE IF a.kind = "inf" THEN a.num < 0 /\ ~(b.kind = "inf" /\ b.num < 0)
    ELSE IF b.kind = "inf" THEN b.num > 0
    ELSE a.num * b.den < b.num * a.den

\* round(x, places) of a float, as an integer number of 10^-places
Round(x, places) ==
    IF x.kind = "num"
    THEN [kind |-> "num", num |-> Quantize(x.num * 10 ^ places, x.den), den |-> 10 ^ places]
    ELSE x

\* groupby(...)["price"].mean() of one group
Mean(rows) == Num(SumPrices(rows), Len(rows))

\* the (year, month) group keys of the history frame
MonthBuckets(rows) ==
    {[year |-> YearOf(rows[i].recorded_at),
      month |-> MonthOf(rows[i].recorded_at)] : i \in 1..Len(rows)}

InBucket(rows, b) ==
    SelectSeq(rows, LAMBDA r : /\ YearOf(r.recorded_at) = b.year
                               /\ MonthOf(r.recorded_at) = b.month)

\* The group keys S in ascending (year, rank of the month label) order.
RECURSIVE SortBuckets(_, _)
SortBuckets(S, rank) ==
    IF S = {} THEN << >>
    ELSE LET b == CHOOSE x \in S : \A y \in S :
                      \/ x.year < y.year
                      \/ x.year = y.year /\ rank[x.month] <= rank[y.month]
         IN  << b >> \o SortBuckets(S \ {b}, rank)

\* groupby(["year","month"]).mean().reset_index().sort_values(...), then
\* prev = price.shift(1), delta_pct = (price - prev) / prev * 100 and
\* dropna(), with the month labels ordered by `rank`.
StepsBy(rows, rank) ==
    LET keys == SortBuckets(MonthBuckets(rows), rank)
        price == [i \in 1..Len(keys) |-> Mean(InBucket(rows, keys[i]))]
        m == [i \in 1..Len(keys) |->
                LET prev == IF i = 1 THEN NaN ELSE price[i - 1] IN
                [year |-> keys[i].year, month |-> keys[i].month,
                 price |-> price[i], prev |-> prev,
                 delta_pct |-> Times(Div(Minus(price[i], prev), prev), 100)]]
    IN  SelectSeq(m, LAMBDA r : r.prev.kind # "nan" /\ r.delta_pct.kind # "nan")

\* ListingAnalyticsSerializer._month_step_df
MonthStepDf(rows) == StepsBy(rows, StringRank)

\* df.nlargest(n, "delta_pct") / df.nsmallest(n, "delta_pct"): the n rows
\* with the largest (smallest) delta_pct, largest (smallest) first, equal
\* values in frame order.
RECURSIVE Extreme(_, _, _)
Extreme(df, n, largest) ==
    IF n = 0 \/ df = << >> THEN << >>
    ELSE LET better(a, b) == IF largest THEN Less(b, a) ELSE Less(a, b)
             i == CHOOSE k \in 1..Len(df) :
                    /\ \A j \in 1..Len(df) : ~better(df[j].delta_pct, df[k].delta_pct)
                    /\ \A j \in 1..(k - 1) : better(df[k].delta_pct, df[j].delta_pct)
             rest == [j \in 1..(Len(df) - 1) |-> IF j < i THEN df[j] ELSE df[j + 1]]
         IN  << df[i] >> \o Extreme(rest, n - 1, largest)

\* the list get_high_jump_months / get_high_drop_months return for a frame
StepLabels(df) ==
    [i \in 1..Len(df) |->
        [label |-> df[i].month, delta_pct |-> Round(df[i].delta_pct, 1)]]

\* get_high_jump_months(obj, top_n=5) and get_high_drop_months(obj, top_n=5)
GetHighJumpMonths(rows) == StepLabels(Extreme(MonthStepDf(rows), TopN, TRUE))
GetHighDropMonths(rows) == StepLabels(Extreme(MonthStepDf(rows), TopN, FALSE))

\* ListingViewSet.retrieve -> ListingAnalyticsSerializer: the month-step
\* fields of the response.
GetMonthSteps(w, l) ==
    /\ pc[w] = "idle"
    /\ l \in DOMAIN listing
    /\ op' = [op EXCEPT ![w] =
                [Request("analytics", l, NoAttrs, listing[l].price, "ok")
                   EXCEPT !.view =
                     [steps |-> MonthStepDf(HistoryOf(l)),
                      high_jump_months |-> GetHighJumpMonths(HistoryOf(l)),
                      high_drop_months |-> GetHighDropMonths(HistoryOf(l))]]]
    /\ lastDone' = w
    /\ UNCHANGED << listing, history, nextListingId, nextHistId, pc, inst,
                    opsStarted, disturbances >>

----------------------------------------------------------------------------
(* The curves and rankings of ListingAnalyticsSerializer *)

\* The elements of S in ascending order of key[x] (keys are distinct).
RECURSIVE SortByKey(_, _)
SortByKey(S, key) ==
    IF S = {} THEN << >>
    ELSE LET x == CHOOSE a \in S : \A b \in S : key[a] <= key[b]
         IN  << x >> \o SortByKey(S \ {x}, key)

\* ts.dt.to_period("Q").astype(str): the label "<year>Q<n>" of a stamp,
\* held as its two parts.
QuarterOf(t) ==
    [year |-> YearOf(t), q |-> ((t % Len(MonthLabels)) \div 3) + 1]

\* The order of the labels "<year>Q<n>" as strings, for years written with
\* the same number of digits: by year, then by n.
QuarterRank == [k \in [year : 0..YearOf(MaxOf(Stamps \cup CurveStamps)), q : 1..4]
                   |-> 4 * k.year + k.q]

\* the result of a view that returns None
NoQuarter == [year |-> -1, q |-> 0]

\* df.groupby("month"): one group per month label, all years together, in
\* the ascending order of the labels as strings.
GroupByMonth(rows) ==
    LET keys == SortByKey({MonthOf(rows[i].recorded_at) : i \in 1..Len(rows)},
                          StringRank)
    IN  [i \in 1..Len(keys) |->
            [label |-> keys[i],
             rows |-> SelectSeq(rows, LAMBDA r : MonthOf(r.recorded_at) = keys[i])]]

\* df.groupby("quarter"): one group per quarter label, in ascending order
\* of the labels.
GroupByQuarter(rows) ==
    LET keys == SortByKey({QuarterOf(rows[i].recorded_at) : i \in 1..Len(rows)},
                          QuarterRank)
    IN  [i \in 1..Len(keys) |->
            [label |-> keys[i],
             rows |-> SelectSeq(rows, LAMBDA r : QuarterOf(r.recorded_at) = keys[i])]]

RECURSIVE SumSquares(_)
SumSquares(rows) ==
    IF rows = << >> THEN 0
    ELSE Head(rows).price * Head(rows).price + SumSquares(Tail(rows))

\* The square of .std() of one group: the sample variance (ddof = 1),
\* which is 0 / 0, not a number, for a group of one value.
Var(rows) ==
    LET n == Len(rows)
        s == SumPrices(rows)
    IN  IF n < 2 THEN NaN ELSE Num(n * SumSquares(rows) - s * s, n * (n - 1))

\* The square of std / mean of one group whose prices are not negative:
\* not a number when the std is, and when both std and mean are 0.
CvSquared(rows) ==
    LET mean == Mean(rows)
    IN  Div(Var(rows), Num(mean.num * mean.num, mean.den * mean.den))

\* The largest integer whose square is not above n, for n >= 0.
RECURSIVE ISqrt(_)
ISqrt(n) ==
    IF n < 2 THEN n
    ELSE LET s == 2 * ISqrt(n \div 4)
         IN  IF (s + 1) * (s + 1) > n THEN s ELSE s + 1

\* round(sqrt(x), places) for a float x >= 0 held as a fraction, as an
\* integer number of 10^-places (the nearest one: sqrt(4 * x) lies between
\* 2k - 1 and 2k + 1); not-a-number stays so.
RoundSqrt(x, places) ==
    IF x.kind # "num" THEN x
    ELSE LET q == (4 * x.num * 10 ^ (2 * places)) \div x.den
         IN  [kind |-> "num", num |-> (ISqrt(q) + 1) \div 2, den |-> 10 ^ places]

\* Series.nlargest(n) / DataFrame.nsmallest(n, col) on the column col of
\* the frame df: the rows whose value is a number, largest (smallest)
\* first and equal values in frame order, then the rows whose value is
\* not a number, in frame order; the first n of these.
RECURSIVE Ranked(_, _, _)
Ranked(df, col, largest) ==
    IF df = << >> THEN << >>
    ELSE LET better(a, b) == IF largest THEN Less(b, a) ELSE Less(a, b)
             i == CHOOSE k \in 1..Len(df) :
                    /\ \A j \in 1..Len(df) : ~better(df[j][col], df[k][col])
                    /\ \A j \in 1..(k - 1) : better(df[k][col], df[j][col])
             rest == [j \in 1..(Len(df) - 1) |-> IF j < i THEN df[j] ELSE df[j + 1]]
         IN  << df[i] >> \o Ranked(rest, col, largest)

NSelect(df, col, n, largest) ==
    Take(Ranked(SelectSeq(df, LAMBDA r : r[col].kind # "nan"), col, largest)
           \o SelectSeq(df, LAMBDA r : r[col].kind = "nan"),
         n)

\* (variant of IdxMin: the label of the last row that holds the smallest
\* value)
IdxMinLast(df) ==
    LET i == CHOOSE k \in 1..Len(df) :
                /\ \A j \in 1..Len(df) : ~Less(df[j].price, df[k].price)
                /\ \A j \in (k + 1)..Len(df) : Less(df[k].price, df[j].price)
    IN  df[i].label

\* Series.idxmin(): the label of the first row of the frame that holds the
\* smallest value.
IdxMin(df) ==
    LET i == CHOOSE k \in 1..Len(df) :
                /\ \A j \in 1..Len(df) : ~Less(df[j].price, df[k].price)
                /\ \A j \in 1..(k - 1) : Less(df[k].price, df[j].price)
    IN  df[i].label

\* groupby(...)["price"].mean() of a grouped frame
Means(groups) ==
    [i \in 1..Len(groups) |->
        [label |-> groups[i].label, price |-> Mean(groups[i].rows)]]

\* get_quarterly_curve
GetQuarterlyCurve(rows) ==
    IF rows = << >> THEN << >>
    ELSE LET tbl == Means(GroupByQuarter(rows)) IN
         [i \in 1..Len(tbl) |->
            [label |-> tbl[i].label, avg_price |-> Round(tbl[i].price, 0)]]

\* (variant of GetMonthlyCurve: reindexed to Jan .. Dec without dropna())
GetMonthlyCurveAllMonths(rows) ==
    IF rows = << >> THEN << >>
    ELSE LET tbl == Means(GroupByMonth(rows)) IN
         [i \in 1..Len(MonthLabels) |->
            [label |-> MonthLabels[i],
             avg_price |->
                IF \E j \in 1..Len(tbl) : tbl[j].label = MonthLabels[i]
                THEN Round(tbl[CHOOSE j \in 1..Len(tbl) :
                                  tbl[j].label = MonthLabels[i]].price, 0)
                ELSE NaN]]

\* get_monthly_curve: the means per month label, reindexed to Jan .. Dec
\* (a label without a group gets not-a-number), then dropna()
GetMonthlyCurve(rows) ==
    IF rows = << >> THEN << >>
    ELSE LET tbl == Means(GroupByMonth(rows))
             reindexed == [i \in 1..Len(MonthLabels) |->
                 [label |-> MonthLabels[i],
                  price |-> IF \E j \in 1..Len(tbl) : tbl[j].label = MonthLabels[i]
                            THEN tbl[CHOOSE j \in 1..Len(tbl) :
                                        tbl[j].label = MonthLabels[i]].price
                            ELSE NaN]]
             kept == SelectSeq(reindexed, LAMBDA r : r.price.kind # "nan")
         IN  [i \in 1..Len(kept) |->
                [label |-> kept[i].label, avg_price |-> Round(kept[i].price, 0)]]

\* get_top_quarter_overall
GetTopQuarterOverall(rows) ==
    IF rows = << >> THEN NoQuarter
    ELSE IdxMin(Means(GroupByQuarter(rows)))

\* (variant of GetTopQuarterRecent: without the check for an empty frame,
\* the first quarter there is stands for None)
GetTopQuarterRecentUnguarded(rows) ==
    LET years == {YearOf(rows[i].recorded_at) : i \in 1..Len(rows)} \cup {0}
        recent == SelectSeq(rows, LAMBDA r : YearOf(r.recorded_at) = MaxOf(years))
    IN  IF recent = << >> THEN QuarterOf(0)
        ELSE IdxMin(Means(GroupByQuarter(recent)))

\* get_top_quarter_recent
GetTopQuarterRecent(rows) ==
    IF rows = << >> THEN NoQuarter
    ELSE LET latest == MaxOf({YearOf(rows[i].recorded_at) : i \in 1..Len(rows)})
             recent == SelectSeq(rows, LAMBDA r : YearOf(r.recorded_at) = latest)
         IN  IF recent = << >> THEN NoQuarter
             ELSE IdxMin(Means(GroupByQuarter(recent)))

\* get_volatile_months(obj, top_n=5); std is held in minor units, so
\* round(v, 2) is the nearest whole number of them
GetVolatileMonths(rows) ==
    IF rows = << >> THEN << >>
    ELSE LET groups == GroupByMonth(rows)
             vol == NSelect([i \in 1..Len(groups) |->
                               [label |-> groups[i].label,
                                var |-> Var(groups[i].rows),
                                rows |-> groups[i].rows]],
                            "var", TopN, TRUE)
         IN  [i \in 1..Len(vol) |->
                [label |-> vol[i].label,
                 std |-> RoundSqrt(vol[i].var, 0)]]

\* get_stable_quarters(obj, top_n=3)
GetStableQuarters(rows) ==
    IF rows = << >> THEN << >>
    ELSE LET groups == GroupByQuarter(rows)
             cv == NSelect([i \in 1..Len(groups) |->
                              [label |-> groups[i].label,
                               cv2 |-> CvSquared(groups[i].rows),
                               rows |-> groups[i].rows]],
                           "cv2", StableTopN, FALSE)
         IN  [i \in 1..Len(cv) |->
                [label |-> cv[i].label,
                 cv |-> RoundSqrt(cv[i].cv2, 3)]]

\* ListingViewSet.retrieve -> ListingAnalyticsSerializer: every computed
\* field of the response.
GetAnalytics(w, l) ==
    /\ pc[w] = "idle"
    /\ l \in DOMAIN listing
    /\ LET rows == HistoryOf(l)
           computed ==
             [price_history |-> << >>,
              quarterly_curve |-> GetQuarterlyCurve(rows),
              monthly_curve |-> GetMonthlyCurve(rows),
              top_quarter_overall |-> GetTopQuarterOverall(rows),
              top_quarter_recent |-> GetTopQuarterRecent(rows),
              steps |-> MonthStepDf(rows),
              high_jump_months |-> GetHighJumpMonths(rows),
              high_drop_months |-> GetHighDropMonths(rows),
              volatile_months |-> GetVolatileMonths(rows),
              stable_quarters |-> GetStableQuarters(rows)]
       IN  \E seen \in OrderByRecordedAtDesc({rows[i] : i \in 1..Len(rows)}) :
              op' = [op EXCEPT ![w] =
                       [Request("curves", l, NoAttrs, listing[l].price, "ok")
                          EXCEPT !.view =
                            [computed EXCEPT !.price_history =
                                PricePoints(Take(seen, HistoryLimit))]]]
    /\ lastDone' = w
    /\ UNCHANGED << listing, history, nextListingId, nextHistId, pc, inst,
                    opsStarted, disturbances >>

----------------------------------------------------------------------------
(* Deletes *)

\* (variant of DeleteListing: the cascade empties the ledger)
DeleteListingAndLedger(l) ==
    /\ l \in DOMAIN listing
    /\ opsStarted < MaxOps
    /\ opsStarted' = opsStarted + 1
    /\ listing' = DropRow(l)
    /\ history' = << >>
    /\ lastDone' = "none"
    /\ disturbances' = disturbances + 1
    /\ UNCHANGED << nextListingId, nextHistId, pc, inst, op >>

\* PriceListing.delete(): the cascade to PriceHistory.listing runs in the
\* collector's transaction together with the delete of the row.
DeleteListing(l) ==
    /\ l \in DOMAIN listing
    /\ opsStarted < MaxOps
    /\ opsStarted' = opsStarted + 1
    /\ listing' = DropRow(l)
    /\ history' = SelectSeq(history, LAMBDA r : r.listing # l)
    /\ lastDone' = "none"
    /\ disturbances' = disturbances + 1
    /\ UNCHANGED << nextListingId, nextHistId, pc, inst, op >>

\* Delete of the product, service, town or market row id: the foreign keys
\* of PriceListing are on_delete=CASCADE, so every listing that references
\* it is deleted, and with each such listing its PriceHistory rows.
DeleteRef(k, id) ==
    LET gone == {l \in DOMAIN listing : listing[l][k] = id} IN
    /\ gone # {}
    /\ opsStarted < MaxOps
    /\ opsStarted' = opsStarted + 1
    /\ listing' = [i \in DOMAIN listing \ gone |-> listing[i]]
    /\ history' = SelectSeq(history, LAMBDA r : r.listing \notin gone)
    /\ lastDone' = "none"
    /\ disturbances' = disturbances + 1
    /\ UNCHANGED << nextListingId, nextHistId, pc, inst, op >>

\* PriceHistoryAdmin: add and change are refused, has_delete_permission is
\* inherited, so the delete view and the delete_selected action remove rows.
AdminDeleteHistory(h) ==
    /\ \E i \in 1..Len(history) : history[i].id = h
    /\ opsStarted < MaxOps
    /\ opsStarted' = opsStarted + 1
    /\ history' = SelectSeq(history, LAMBDA r : r.id # h)
    /\ lastDone' = "none"
    /\ disturbances' = disturbances + 1
    /\ UNCHANGED << listing, nextListingId, nextHistId, pc, inst, op >>

----------------------------------------------------------------------------
Step(w) ==
    \/ \E p \in Prices, c \in Currencies : CreateListing(w, p, c, ProductInTown)
    \/ \E l \in DOMAIN listing, p \in Prices, c \in Currencies, s \in BOOLEAN :
            UpdateListing(w, l, p, c, s, NoAttrs)
    \/ \E l \in DOMAIN listing, p \in Prices : SavePrice(w, l, p)
    \/ SaveRow(w)
    \/ SnapshotPrice(w)
    \/ AppendHistory(w)
    \/ FailAppend(w)
    \/ Recalc(w)
    \/ SaveStats(w)

Next ==
    \/ \E w \in Workers : Step(w)
    \/ \E l \in DOMAIN listing : DeleteListing(l)
    \/ \E h \in 1..(nextHistId - 1) : AdminDeleteHistory(h)

Spec == Init /\ [][Next]_vars

\* One request at a time: a single worker, and deletes only between requests.
SeqNext ==
    \/ Step("w1")
    \/ Busy = {} /\ \E l \in DOMAIN listing : DeleteListing(l)
    \/ Busy = {} /\ \E h \in 1..(nextHistId - 1) : AdminDeleteHistory(h)

SeqSpec == Init /\ [][SeqNext]_vars

\* Concurrent requests on an existing listing.
ConcSpec == InitSeeded /\ [][Next]_vars

\* The REST interface, one request at a time: creates with every
\* combination of the four references, updates that carry any of the
\* PatchKeys, prices of either sign.
ApiStep(w) ==
    \/ \E p \in ApiPrices, data \in AttrsOver(RefFields) :
            CreateListing(w, p, "GHS", data)
    \/ \E l \in DOMAIN listing, p \in ApiPrices, s \in BOOLEAN,
          data \in UNION {AttrsOver(keys) : keys \in PatchKeys} :
            UpdateListing(w, l, p, listing[l].currency, s, data)
    \/ SaveRow(w)
    \/ SnapshotPrice(w)
    \/ AppendHistory(w)
    \/ Recalc(w)
    \/ SaveStats(w)

ApiNext ==
    \/ ApiStep("w1")
    \/ Busy = {} /\ \E l \in DOMAIN listing : DeleteListing(l)

ApiSpec == Init /\ [][ApiNext]_vars

\* Requests whose bodies carry, or do not carry, values for the three
\* aggregates, one request at a time.
BodyStep(w) ==
    \/ \E p \in ApiPrices, data \in Bodies({ProductInTown}) :
            CreateListing(w, p, "GHS", data)
    \/ \E l \in DOMAIN listing, p \in ApiPrices, s \in BOOLEAN,
          data \in Bodies({NoAttrs}) :
            UpdateListing(w, l, p, listing[l].currency, s, data)
    \/ SaveRow(w)
    \/ SnapshotPrice(w)
    \/ AppendHistory(w)
    \/ Recalc(w)
    \/ SaveStats(w)

BodyNext == BodyStep("w1")

BodySpec == Init /\ [][BodyNext]_vars

\* Deletes of listings, and of the rows they reference, beside a stored
\* listing, one request at a time.
CascadeNext ==
    \/ \E p \in Prices, c \in Currencies,
          data \in {ProductInTown, ServiceInMarket} :
            CreateListing("w1", p, c, data)
    \/ SaveRow("w1")
    \/ SnapshotPrice("w1")
    \/ AppendHistory("w1")
    \/ Recalc("w1")
    \/ SaveStats("w1")
    \/ Busy = {} /\ \E l \in DOMAIN listing : DeleteListing(l)
    \/ Busy = {} /\ \E k \in RefFields, id \in RefIds : DeleteRef(k, id)

CascadeSpec == InitSeeded /\ [][CascadeNext]_vars

\* Concurrent writes beside an existing listing, at one new price: the
\* interleavings of creates, updates and deletes of different listings.
PairStep(w) ==
    \/ CreateListing(w, 1500, "GHS", ProductInTown)
    \/ \E l \in DOMAIN listing, s \in BOOLEAN :
            UpdateListing(w, l, 1500, "GHS", s, NoAttrs)
    \/ \E l \in DOMAIN listing : SavePrice(w, l, 1500)
    \/ SaveRow(w)
    \/ SnapshotPrice(w)
    \/ AppendHistory(w)
    \/ Recalc(w)
    \/ SaveStats(w)

PairNext ==
    \/ \E w \in Workers : PairStep(w)
    \/ \E l \in DOMAIN listing : DeleteListing(l)
    \/ \E h \in 1..(nextHistId - 1) : AdminDeleteHistory(h)

PairSpec == InitSeeded /\ [][PairNext]_vars

\* Readers of the price-history view beside concurrent API updates of an
\* existing listing.
ReadStep(w) ==
    \/ \E l \in DOMAIN listing, p \in Prices \ {0} :
            UpdateListing(w, l, p, "GHS", TRUE, NoAttrs)
    \/ SaveRow(w)
    \/ SnapshotPrice(w)
    \/ \E l \in DOMAIN listing : GetPriceHistory(w, l)

ReadNext == \E w \in Workers : ReadStep(w)

ReadSpec == InitSeeded /\ [][ReadNext]_vars

\* The analytics over stored histories: a listing whose history was
\* recorded over several months (recorded_at never decreases with the id).
InitHistories ==
    /\ \E n \in 1..MaxRows :
         \E ps \in [1..n -> AnalyticsPrices], ts \in [1..n -> Stamps] :
            /\ \A i \in 1..(n - 1) : ts[i] <= ts[i + 1]
            /\ history = [i \in 1..n |-> [id |-> i, listing |-> 1, price |-> ps[i],
                                          currency |-> "GHS", recorded_at |-> ts[i]]]
            /\ listing = [i \in {1} |->
                  RowOf(RecalcStats([SetAttrs(NoInst, ProductInTown)
                                       EXCEPT !.pk = 1, !.price = ps[n]],
                                    history))]
            /\ nextHistId = n + 1
    /\ nextListingId = 2
    /\ pc = [w \in Workers |-> "idle"]
    /\ inst = [w \in Workers |-> NoInst]
    /\ op = [w \in Workers |-> NoOp]
    /\ lastDone = "none"
    /\ opsStarted = 0
    /\ disturbances = 0

AnalyticsNext ==
    \/ \E l \in DOMAIN listing : GetMonthSteps("w1", l)
    \/ \E l \in DOMAIN listing : GetPriceHistory("w1", l)

AnalyticsSpec == InitHistories /\ [][AnalyticsNext]_vars

\* The analytics of a listing over every stored history: no row (the
\* PriceHistory admin has deleted them, or the listing row of a create is
\* read before its first snapshot) up to MaxRows rows.
InitCurves ==
    /\ \E n \in 0..MaxRows :
         \E ps \in [1..n -> CurvePrices], ts \in [1..n -> CurveStamps] :
            /\ \A i \in 1..(n - 1) : ts[i] <= ts[i + 1]
            /\ history = [i \in 1..n |-> [id |-> i, listing |-> 1, price |-> ps[i],
                                          currency |-> "GHS", recorded_at |-> ts[i]]]
            /\ listing = [i \in {1} |->
                  RowOf(RecalcStats([SetAttrs(NoInst, ProductInTown)
                                       EXCEPT !.pk = 1,
                                              !.price = IF n = 0 THEN 1000 ELSE ps[n]],
                                    history))]
            /\ nextHistId = n + 1
    /\ nextListingId = 2
    /\ pc = [w \in Workers |-> "idle"]
    /\ inst = [w \in Workers |-> NoInst]
    /\ op = [w \in Workers |-> NoOp]
    /\ lastDone = "none"
    /\ opsStarted = 0
    /\ disturbances = 0

CurveNext == \E l \in DOMAIN listing : GetAnalytics("w1", l)

CurveSpec == InitCurves /\ [][CurveNext]_vars

\* Status changes and price updates of an existing listing, one request
\* at a time.
StatusStep(w) ==
    \/ \E l \in DOMAIN listing, p \in Prices \ {0}, s \in BOOLEAN :
            UpdateListing(w, l, p, "GHS", s, NoAttrs)
    \/ \E l \in DOMAIN listing : SavePrice(w, l, 1500)
    \/ SaveRow(w)
    \/ SnapshotPrice(w)
    \/ AppendHistory(w)
    \/ FailAppend(w)
    \/ Recalc(w)
    \/ SaveStats(w)

StatusNext == StatusStep("w1")

StatusSpec == InitSeeded /\ [][StatusNext]_vars

----------------------------------------------------------------------------
(* Properties *)

\* Arithmetic mean of the history prices at two decimal places, their
\* minimum and their maximum, as the specification states them.
MeanOfPrices(rows) == Quantize(SumPrices(rows), Len(rows))
LowestOfPrices(rows) == CHOOSE x \in RowPrices(rows) : \A y \in RowPrices(rows) : x <= y
HighestOfPrices(rows) == CHOOSE x \in RowPrices(rows) : \A y \in RowPrices(rows) : y <= x

StatsMatch(row, rows) ==
    /\ rows # << >>
    /\ row.average_price = MeanOfPrices(rows)
    /\ row.lowest_price = LowestOfPrices(rows)
    /\ row.highest_price = HighestOfPrices(rows)

\* request w has just returned successfully
JustDone(w) == lastDone = w /\ op[w].result = "ok"

\* ... and the run so far was listing saves only, none of which raised
JustSaved(w) == JustDone(w) /\ disturbances = 0

RowIds(rows) == {rows[i].id : i \in 1..Len(rows)}

\* C1: after each completed create or price update of a listing, its stored
\* average_price / lowest_price / highest_price equal the mean / minimum /
\* maximum of the prices of all its PriceHistory rows.
AggregateCorrectness ==
    \A w \in Workers :
        (/\ JustSaved(w)
         /\ op[w].kind \in {"create", "update", "save_price"}
         /\ inst[w].pk \in DOMAIN listing)
        => StatsMatch(listing[inst[w].pk], HistoryOf(inst[w].pk))

\* C2: an update that stores the price and currency the listing already has
\* leaves the number of its PriceHistory rows and its aggregates unchanged.
SamePriceKeepsHistory ==
    \A w \in Workers :
        (/\ JustSaved(w)
         /\ op[w].kind = "update"
         /\ inst[w].price = op[w].pre.price
         /\ inst[w].currency = op[w].pre.currency)
        => /\ Len(HistoryOf(inst[w].pk)) = Len(op[w].preHist)
           /\ listing[inst[w].pk].average_price = op[w].pre.average_price
           /\ listing[inst[w].pk].lowest_price = op[w].pre.lowest_price
           /\ listing[inst[w].pk].highest_price = op[w].pre.highest_price

\* C3: an update to a different price, by save() or by
\* save(update_fields=["price"]), adds exactly one PriceHistory row to the
\* listing, carrying the new price and the listing's currency.
PriceChangeAppendsOneRow ==
    \A w \in Workers :
        (/\ JustSaved(w)
         /\ op[w].kind \in {"update", "save_price"}
         /\ inst[w].price # op[w].pre.price)
        => LET rows == HistoryOf(inst[w].pk) IN
           /\ Len(rows) = Len(op[w].preHist) + 1
           /\ rows[Len(rows)].price = inst[w].price
           /\ rows[Len(rows)].currency = listing[inst[w].pk].currency

\* C4: right after a successful create the listing's history holds exactly
\* one row, with the initial price and currency.
CreateAppendsOneRow ==
    \A w \in Workers :
        (JustSaved(w) /\ op[w].kind = "create")
        => LET rows == HistoryOf(inst[w].pk) IN
           /\ Len(rows) = 1
           /\ rows[1].price = inst[w].price
           /\ rows[1].currency = inst[w].currency

\* C5: right after a successful create with initial price p the stored
\* average_price, lowest_price and highest_price all equal p, also for
\* p = 0.00.
CreateSeedsAggregates ==
    \A w \in Workers :
        (JustDone(w) /\ op[w].kind = "create")
        => /\ inst[w].pk \in DOMAIN listing
           /\ listing[inst[w].pk].average_price = inst[w].price
           /\ listing[inst[w].pk].lowest_price = inst[w].price
           /\ listing[inst[w].pk].highest_price = inst[w].price

\* a create at 0.00 has just returned, its rows are in the ledger
CreatedAtZero ==
    \E w \in Workers :
        /\ JustDone(w)
        /\ op[w].kind = "create"
        /\ inst[w].price = 0
        /\ op[w].rows # {}
        /\ listing[inst[w].pk].price = 0

\* C6: an update that changes only status changes only the status column:
\* price, currency, the three aggregates and the listing's PriceHistory rows
\* stay as they were.
StatusToggleTouchesOnlyStatus ==
    \A w \in Workers :
        (/\ JustSaved(w)
         /\ op[w].kind = "update"
         /\ inst[w].price = op[w].pre.price
         /\ inst[w].currency = op[w].pre.currency
         /\ inst[w].status # op[w].pre.status)
        => /\ listing[inst[w].pk] = [op[w].pre EXCEPT !.status = inst[w].status]
           /\ HistoryOf(inst[w].pk) = op[w].preHist

\* C7: once two price updates of one listing have both completed, in any
\* interleaving, the stored aggregates are those of a history set that
\* holds rows appended by both of them (stated for the saves that
\* recompute, save(update_fields=["price"]), and for histories without a
\* 0.00 price, where _recalc_stats never takes its fallback).
ConcurrentUpdatesNotLost ==
    \A w1 \in Workers : \A w2 \in Workers \ {w1} :
        (/\ disturbances = 0
         /\ pc[w1] = "idle" /\ pc[w2] = "idle"
         /\ op[w1].result = "ok" /\ op[w2].result = "ok"
         /\ op[w1].kind = "save_price"
         /\ op[w2].kind = "save_price"
         /\ inst[w1].pk = inst[w2].pk
         /\ inst[w1].pk \in DOMAIN listing
         /\ 0 \notin RowPrices(HistoryOf(inst[w1].pk)))
        => \E k \in 1..(nextHistId - 1) :
             LET seen == SelectSeq(HistoryOf(inst[w1].pk), LAMBDA r : r.id <= k) IN
             /\ op[w1].rows \cap RowIds(seen) # {}
             /\ op[w2].rows \cap RowIds(seen) # {}
             /\ StatsMatch(listing[inst[w1].pk], seen)

\* C8: whenever a reader fetches a listing, also while a write is in
\* progress, the stored aggregates reflect every committed PriceHistory
\* row of that listing.
ReaderSeesFreshStats ==
    \A l \in DOMAIN listing :
        HistoryOf(l) # << >> => StatsMatch(listing[l], HistoryOf(l))

\* C9: when an append to the ledger fails during a price update, nothing
\* of the update remains: a stored new price has a history row of this
\* update recording it, and a row this update recorded carries the stored
\* price.
FailedAppendAbortsUpdate ==
    \A w \in Workers :
        (/\ lastDone = w
         /\ op[w].result = "append_failed"
         /\ disturbances = 1
         /\ op[w].kind \in {"update", "save_price"})
        => LET l == inst[w].pk
               mine == SelectSeq(HistoryOf(l), LAMBDA r : r.id \in op[w].rows)
           IN  /\ (/\ l \in DOMAIN listing
                   /\ \/ listing[l].price # op[w].pre.price
                      \/ listing[l].currency # op[w].pre.currency)
                  => \E i \in 1..Len(mine) : mine[i].price = listing[l].price
               /\ \A i \in 1..Len(mine) :
                      l \in DOMAIN listing /\ mine[i].price = listing[l].price

\* C10: a step never changes or removes an existing PriceHistory row,
\* unless the step deletes the listing that owns it.
HistoryAppendOnly ==
    [][\A i \in 1..Len(history) :
          history[i].listing \in DOMAIN listing'
          => \E j \in 1..Len(history') : history'[j] = history[i]]_vars

----------------------------------------------------------------------------
(* Validation of the references *)

ExactlyOneStem(r) == (r.product # None) # (r.service # None)
HasGeoAnchor(r) == r.town # None \/ r.market # None

\* create request w has just returned with result res
CreateReturned(w, res) ==
    lastDone = w /\ op[w].kind = "create" /\ op[w].result = res

\* the listing a create request asked for is stored, with its references
CreatedAsAsked(w) ==
    /\ op[w].result = "ok"
    /\ inst[w].pk \in DOMAIN listing
    /\ \A k \in RefFields : listing[inst[w].pk][k] = op[w].attrs[k]
    /\ HistoryOf(inst[w].pk) # << >>

\* a step in which a request returns with a validation error writes
\* neither table
RejectionWritesNothing ==
    (\E w \in Workers : lastDone' = w /\ op'[w].result = "validation_error")
    => listing' = listing /\ history' = history

\* C11: a create request whose references have a geo anchor stores the
\* listing when exactly one of product and service is set; when both or
\* neither is set it ends in a ValidationError and the step writes no
\* listing row and no history row.  Every stored listing has exactly one
\* of product / service non-null.
CreateRequiresOneStem ==
    /\ [](\A l \in DOMAIN listing : ExactlyOneStem(listing[l]))
    /\ [](\A w \in Workers :
            (lastDone = w /\ op[w].kind = "create" /\ HasGeoAnchor(op[w].attrs))
            => IF ExactlyOneStem(op[w].attrs)
               THEN CreatedAsAsked(w)
               ELSE op[w].result = "validation_error")
    /\ [][RejectionWritesNothing]_vars

\* a create with both product and service set has just been refused, while
\* the store holds a service listing created before it
BothStemsRefused ==
    /\ \E w \in Workers :
          /\ CreateReturned(w, "validation_error")
          /\ op[w].attrs.product # None
          /\ op[w].attrs.service # None
          /\ HasGeoAnchor(op[w].attrs)
    /\ \E l \in DOMAIN listing : listing[l].service # None
    /\ history # << >>

\* C12: a create request with a valid stem stores the listing when town,
\* market or both are set; when both are null it ends in a ValidationError
\* and the step writes nothing.  Every stored listing has at least one of
\* town / market non-null.
CreateRequiresGeoAnchor ==
    /\ [](\A l \in DOMAIN listing : HasGeoAnchor(listing[l]))
    /\ [](\A w \in Workers :
            (lastDone = w /\ op[w].kind = "create" /\ ExactlyOneStem(op[w].attrs))
            => IF HasGeoAnchor(op[w].attrs)
               THEN CreatedAsAsked(w)
               ELSE op[w].result = "validation_error")
    /\ [][(\E w \in Workers :
              /\ lastDone' = w
              /\ op'[w].kind = "create"
              /\ op'[w].result = "validation_error"
              /\ ~HasGeoAnchor(op'[w].attrs))
          => listing' = listing /\ history' = history]_vars

\* a create without town and market has just been refused, while the store
\* holds a listing anchored to a market only
NoAnchorRefused ==
    /\ \E w \in Workers :
          /\ CreateReturned(w, "validation_error")
          /\ ExactlyOneStem(op[w].attrs)
          /\ op[w].attrs.town = None
          /\ op[w].attrs.market = None
    /\ \E l \in DOMAIN listing :
          listing[l].town = None /\ listing[l].market # None

\* C13: a create, or an update of a listing's price, that carries a
\* negative price ends in a ValidationError, and the listing row and the
\* listing's history are as they were before the request.
NegativePriceRejected ==
    \A w \in Workers :
        (/\ lastDone = w
         /\ op[w].kind \in {"create", "update"}
         /\ op[w].price < 0)
        => /\ op[w].result = "validation_error"
           /\ op[w].rows = {}
           /\ op[w].existed => listing[inst[w].pk] = op[w].pre

----------------------------------------------------------------------------
(* Status, other listings, deletes *)

\* the history rows request w appended, in id order
AppendedBy(w) == SelectSeq(history, LAMBDA r : r.id \in op[w].rows)

\* C14: status never blocks a price mutation.  A price update of an
\* existing listing is never refused, whatever the listing's status; once
\* it has returned, the new price is stored and the listing's history is
\* the history it had followed by rows of this update carrying the new
\* price, as many for an inactive listing as for an active one (one for an
\* API update, three for save(update_fields=["price"])).
InactiveListingAcceptsPrice ==
    \A w \in Workers :
        (/\ lastDone = w
         /\ op[w].kind \in {"update", "save_price"}
         /\ op[w].existed)
        => /\ op[w].result \in {"ok", "append_failed"}
           /\ JustSaved(w) =>
                /\ listing[inst[w].pk].price = op[w].price
                /\ HistoryOf(inst[w].pk) = op[w].preHist \o AppendedBy(w)
                /\ \A i \in 1..Len(AppendedBy(w)) :
                       AppendedBy(w)[i].price = op[w].price
                /\ Len(AppendedBy(w)) = IF op[w].kind = "update" THEN 1 ELSE 3

\* a price update of an inactive listing has just returned
InactiveListingRepriced ==
    \E w \in Workers :
        /\ JustSaved(w)
        /\ op[w].kind \in {"update", "save_price"}
        /\ ~op[w].pre.status
        /\ op[w].price # op[w].pre.price
        /\ ~listing[inst[w].pk].status
        /\ Len(HistoryOf(inst[w].pk)) > Len(op[w].preHist)

RowsOf(rows, l) == SelectSeq(rows, LAMBDA r : r.listing = l)

\* worker w takes this step
Acts(w) == pc'[w] # pc[w] \/ op'[w] # op[w] \/ inst'[w] # inst[w]

\* C15: a step of a write to listing A (a create, an update, a delete)
\* leaves the row and the PriceHistory rows of every other listing B as
\* they were, and a PriceHistory row a save inserts is attached to the
\* listing being saved.
WritesTouchOneListing ==
    [][/\ \A b \in DOMAIN listing :
            \/ /\ b \in DOMAIN listing'
               /\ listing'[b] = listing[b]
               /\ RowsOf(history', b) = RowsOf(history, b)
            \/ \E w \in Workers : Acts(w) /\ inst'[w].pk = b
            \/ /\ b \notin DOMAIN listing'
               /\ \A a \in DOMAIN listing \ {b} :
                      /\ a \in DOMAIN listing'
                      /\ listing'[a] = listing[a]
                      /\ RowsOf(history', a) = RowsOf(history, a)
            \/ \* a PriceHistoryAdmin delete, which writes no listing
               /\ listing' = listing
               /\ pc' = pc
               /\ Len(history') < Len(history)
       /\ \A j \in 1..Len(history') :
            history'[j].id >= nextHistId
            => \E w \in Workers :
                 /\ Acts(w)
                 /\ history'[j].listing = inst[w].pk
                 /\ history'[j].id \in op'[w].rows
      ]_vars

\* a write to one listing has just returned while another listing, with
\* history of its own, is stored
WroteBesideAnotherListing ==
    \E w \in Workers :
        /\ JustDone(w)
        /\ op[w].rows # {}
        /\ inst[w].pk \in DOMAIN listing
        /\ \E b \in DOMAIN listing \ {inst[w].pk} : HistoryOf(b) # << >>

\* some listing is deleted in this step
ListingDeleted == DOMAIN listing' # DOMAIN listing /\ DOMAIN listing' \subseteq DOMAIN listing

\* C16: a step that deletes a listing removes every PriceHistory row that
\* references it and leaves the PriceHistory rows of every listing that
\* stays; no PriceHistory row ever references a listing that is not
\* stored.
CascadeRemovesOwnHistoryOnly ==
    /\ [](\A i \in 1..Len(history) : history[i].listing \in DOMAIN listing)
    /\ [][ListingDeleted =>
            /\ \A l \in DOMAIN listing \ DOMAIN listing' :
                   RowsOf(history', l) = << >>
            /\ \A l \in DOMAIN listing' :
                   RowsOf(history', l) = RowsOf(history, l)]_vars

\* the seeded listing has been deleted, its rows are gone, and a listing
\* created beside it still has its rows
DeletedBesideAnotherListing ==
    /\ 1 \notin DOMAIN listing
    /\ 2 \in DOMAIN listing
    /\ HistoryOf(1) = << >>
    /\ Len(HistoryOf(2)) = 3

----------------------------------------------------------------------------
(* Aggregates and the client *)

Aggregates(row) == << row.average_price, row.lowest_price, row.highest_price >>

\* C17: the aggregates are not client-settable.  After a create the stored
\* aggregates are the price of the request, after an update they are the
\* aggregates the listing had: in both cases a function of the listing's
\* price and stored state in which the values the request carries under
\* average_price, lowest_price and highest_price do not occur, so two
\* requests that differ only in those values store the same aggregates.
AggregatesNotClientSettable ==
    \A w \in Workers :
        (JustDone(w) /\ op[w].kind \in {"create", "update"})
        => Aggregates(listing[inst[w].pk]) =
             IF op[w].kind = "create"
             THEN << op[w].price, op[w].price, op[w].price >>
             ELSE Aggregates(op[w].pre)

\* an update whose body carried aggregates other than the stored ones has
\* just returned
UpdateSentAggregates ==
    \E w \in Workers :
        /\ JustDone(w)
        /\ op[w].kind = "update"
        /\ AggregateFields \subseteq DOMAIN op[w].attrs
        /\ op[w].attrs.average_price # listing[inst[w].pk].average_price
        /\ op[w].attrs.lowest_price # op[w].pre.lowest_price

----------------------------------------------------------------------------
(* One listing per stem and geo anchor *)

Refs(row) == [k \in RefFields |-> row[k]]

\* C18: no two stored listings have the same product-or-service reference
\* and the same (town, market) references (stated for listings whose price
\* is not negative).
OneListingPerStemAndAnchor ==
    \A a \in DOMAIN listing : \A b \in DOMAIN listing :
        (a # b /\ listing[a].price >= 0 /\ listing[b].price >= 0)
        => Refs(listing[a]) # Refs(listing[b])

----------------------------------------------------------------------------
(* The price-history view *)

\* The rows S most recent first, rows with equal recorded_at by id:
\* ascending when oldestFirst, descending otherwise.
RECURSIVE NewestFirst(_, _)
NewestFirst(S, oldestFirst) ==
    IF S = {} THEN << >>
    ELSE LET latest == {x \in S : \A y \in S : y.recorded_at <= x.recorded_at}
             r == CHOOSE x \in latest :
                     \A y \in latest :
                        IF oldestFirst THEN x.id <= y.id ELSE x.id >= y.id
         IN  << r >> \o NewestFirst(S \ {r}, oldestFirst)

RowSet(rows) == {rows[i] : i \in 1..Len(rows)}

\* C19: the price-history view returns at most the 90 most recent entries,
\* most recent first, and entries that share a recorded_at in the order of
\* their sequence ids (read either way: in insertion order, or newest id
\* first like the rest of the view), so that two evaluations over the same
\* stored rows return the same sequence.
HistoryViewTiesBySequence ==
    \A w \in Workers :
        (lastDone = w /\ op[w].kind = "retrieve")
        => /\ \/ op[w].view =
                   PricePoints(Take(NewestFirst(RowSet(op[w].preHist), TRUE),
                                    HistoryLimit))
              \/ op[w].view =
                   PricePoints(Take(NewestFirst(RowSet(op[w].preHist), FALSE),
                                    HistoryLimit))
           /\ \A v \in Workers :
                 (op[v].kind = "retrieve" /\ op[v].preHist = op[w].preHist)
                 => op[v].view = op[w].view

----------------------------------------------------------------------------
(* The month-over-month step series *)

\* Calendar position of a month label (Jan = 1 .. Dec = 12).
CalendarRank == [m \in {MonthLabels[i] : i \in 1..Len(MonthLabels)} |->
                    IndexIn(MonthLabels, m)]

\* C20: the month-over-month step series is the (year, month) buckets in
\* chronological order (year, then Jan..Dec), each with its delta_pct
\* against the chronologically preceding bucket, without the first
\* bucket; high_jump_months and high_drop_months rank these deltas.
MonthStepsChronological ==
    \A w \in Workers :
        (lastDone = w /\ op[w].kind = "analytics")
        => LET steps == StepsBy(op[w].preHist, CalendarRank) IN
           /\ op[w].view.steps = steps
           /\ op[w].view.high_jump_months = StepLabels(Extreme(steps, TopN, TRUE))
           /\ op[w].view.high_drop_months = StepLabels(Extreme(steps, TopN, FALSE))

----------------------------------------------------------------------------
(* Curves and rankings *)

\* the analytics of a listing have just been computed by worker w
Computed(w) == lastDone = w /\ op[w].kind = "curves"

Zero(places) == [kind |-> "num", num |-> 0, den |-> 10 ^ places]

\* the rows of a history recorded under a month label / a quarter label
InMonth(rows, m) == SelectSeq(rows, LAMBDA r : MonthOf(r.recorded_at) = m)
InQuarter(rows, k) == SelectSeq(rows, LAMBDA r : QuarterOf(r.recorded_at) = k)

\* C21: a bucket that holds exactly one history entry has standard
\* deviation 0: whenever volatile_months lists a month label with one
\* entry its std is 0, whenever stable_quarters lists a quarter with one
\* entry its cv is 0, and with at most TopN
\* month labels (StableTopN quarters) in the history such a bucket is
\* listed (stated for histories without a 0.00 price, where no ratio has
\* a zero denominator).
SingletonBucketHasZeroStd ==
    \A w \in Workers :
        (Computed(w) /\ 0 \notin RowPrices(op[w].preHist)) =>
            LET rows == op[w].preHist
                vol == op[w].view.volatile_months
                cvs == op[w].view.stable_quarters
            IN  /\ \A i \in 1..Len(vol) :
                      Len(InMonth(rows, vol[i].label)) = 1 => vol[i].std = Zero(0)
                /\ \A i \in 1..Len(cvs) :
                      Len(InQuarter(rows, cvs[i].label)) = 1 => cvs[i].cv = Zero(3)
                /\ \A j \in 1..Len(rows) :
                      (/\ Len(InMonth(rows, MonthOf(rows[j].recorded_at))) = 1
                       /\ Len(GroupByMonth(rows)) <= TopN)
                      => \E i \in 1..Len(vol) :
                            vol[i].label = MonthOf(rows[j].recorded_at)

\* the month buckets of a history are in the same order by label string
\* and by calendar
MonthsInLabelOrder(rows) ==
    SortBuckets(MonthBuckets(rows), StringRank)
        = SortBuckets(MonthBuckets(rows), CalendarRank)

\* C22: ratios leave out the buckets whose denominator is zero: no row of
\* the step series has a previous mean of 0, every delta_pct reported by
\* high_jump_months and high_drop_months is a finite number, and no
\* quarter whose mean price is 0 is listed by stable_quarters (stated for
\* histories whose month buckets sort alike by label and by calendar, and
\* for quarters of two or more entries).
ZeroDenominatorsExcluded ==
    \A w \in Workers :
        (Computed(w) /\ MonthsInLabelOrder(op[w].preHist)) =>
            LET rows == op[w].preHist
                view == op[w].view
            IN  /\ \A i \in 1..Len(view.steps) :
                      /\ view.steps[i].prev.num # 0
                      /\ view.steps[i].delta_pct.kind = "num"
                /\ \A i \in 1..Len(view.high_jump_months) :
                      view.high_jump_months[i].delta_pct.kind = "num"
                /\ \A i \in 1..Len(view.high_drop_months) :
                      view.high_drop_months[i].delta_pct.kind = "num"
                /\ \A i \in 1..Len(view.stable_quarters) :
                      LET group == InQuarter(rows, view.stable_quarters[i].label)
                      IN  Len(group) >= 2 => Mean(group).num # 0

\* C23: for a listing without history entries every analytics view
\* returns its empty value, and the request does not raise:
\* quarterly_curve, monthly_curve, high_jump_months, high_drop_months,
\* volatile_months, stable_quarters and price_history are empty lists,
\* top_quarter_overall and top_quarter_recent are None.
EmptyHistoryEmptyViews ==
    \A w \in Workers :
        (Computed(w) /\ op[w].preHist = << >>) =>
            /\ op[w].result = "ok"
            /\ op[w].view.quarterly_curve = << >>
            /\ op[w].view.monthly_curve = << >>
            /\ op[w].view.high_jump_months = << >>
            /\ op[w].view.high_drop_months = << >>
            /\ op[w].view.volatile_months = << >>
            /\ op[w].view.stable_quarters = << >>
            /\ op[w].view.price_history = << >>
            /\ op[w].view.top_quarter_overall = NoQuarter
            /\ op[w].view.top_quarter_recent = NoQuarter

\* the analytics of a stored listing without history have been computed
EmptyHistoryServed ==
    \E w \in Workers :
        /\ Computed(w)
        /\ op[w].existed
        /\ op[w].preHist = << >>
        /\ history = << >>
        /\ DOMAIN op[w].view # {}

\* the quarter labels of a history
Quarters(rows) == {QuarterOf(rows[i].recorded_at) : i \in 1..Len(rows)}

\* quarter a has a lower mean price than quarter b / the same mean price
LowerMean(rows, a, b) ==
    SumPrices(InQuarter(rows, a)) * Len(InQuarter(rows, b))
        < SumPrices(InQuarter(rows, b)) * Len(InQuarter(rows, a))
SameMean(rows, a, b) ==
    SumPrices(InQuarter(rows, a)) * Len(InQuarter(rows, b))
        = SumPrices(InQuarter(rows, b)) * Len(InQuarter(rows, a))

\* k is the quarter of rows with the lowest mean price, the earliest of
\* those with the lowest mean
CheapestQuarter(rows, k) ==
    /\ k \in Quarters(rows)
    /\ \A b \in Quarters(rows) \ {k} :
          \/ LowerMean(rows, k, b)
          \/ SameMean(rows, k, b) /\ QuarterRank[k] < QuarterRank[b]

\* the entries of the latest year of a history
LatestYear(rows) ==
    SelectSeq(rows, LAMBDA r : \A i \in 1..Len(rows) :
                                  YearOf(rows[i].recorded_at) <= YearOf(r.recorded_at))

MonthlyCurveAcrossYears ==
    \A w \in Workers :
        Computed(w) =>
            LET rows == op[w].preHist
                curve == op[w].view.monthly_curve
            IN  /\ {curve[i].label : i \in 1..Len(curve)}
                     = {MonthOf(rows[j].recorded_at) : j \in 1..Len(rows)}
                /\ \A i \in 1..Len(curve) : \A j \in 1..Len(curve) :
                      i < j => CalendarRank[curve[i].label] < CalendarRank[curve[j].label]
                /\ \A i \in 1..Len(curve) :
                      /\ curve[i].avg_price.kind = "num"
                      /\ curve[i].avg_price.den = 1
                      /\ curve[i].avg_price.num =
                            MeanOfPrices(InMonth(rows, curve[i].label))

\* the curve of a history with January entries at different prices in two
\* years, and entries in another month
JanuaryOfTwoYearsServed ==
    \E w \in Workers :
        /\ Computed(w)
        /\ Len(op[w].view.monthly_curve) = 2
        /\ op[w].view.monthly_curve[1].label = "Jan"
        /\ \E i \in 1..Len(op[w].preHist) : \E j \in 1..Len(op[w].preHist) :
              /\ MonthOf(op[w].preHist[i].recorded_at) = "Jan"
              /\ MonthOf(op[w].preHist[j].recorded_at) = "Jan"
              /\ YearOf(op[w].preHist[i].recorded_at) # YearOf(op[w].preHist[j].recorded_at)
              /\ op[w].preHist[i].price # op[w].preHist[j].price

----------------------------------------------------------------------------
(* The stored aggregates and the ledger, revisited *)

\* C26: in every state reached by creates and saves alone (none raised,
\* nothing deleted), also with save(update_fields=["price"]) and with
\* prices of 0.00, every stored listing has
\* lowest_price <= average_price <= highest_price.
AggregatesOrdered ==
    \A l \in DOMAIN listing :
        disturbances = 0 =>
            /\ listing[l].lowest_price <= listing[l].average_price
            /\ listing[l].average_price <= listing[l].highest_price

\* C27: one call of PriceListing.save appends at most one PriceHistory
\* row: at no point of a save that has not raised has the request inserted
\* two rows, whether by the explicit snapshot, by the receiver, or by the
\* receiver of the inner save of the aggregates.
SaveAppendsAtMostOneRow ==
    \A w \in Workers :
        (/\ disturbances = 0
         /\ op[w].kind \in {"create", "update", "save_price"})
        => Cardinality(op[w].rows) <= 1

\* C28: a step of _recalc_stats that reads a non-empty history sets the
\* three aggregates of the instance to the mean, the minimum and the
\* maximum of the history prices, also when one of them is 0.00 (stated
\* for runs in which no request raised and nothing was deleted).
RecalcUsesHistory ==
    [][\A w \in Workers :
          (/\ pc[w] = "recalc"
           /\ pc'[w] = "save_stats"
           /\ disturbances = 0
           /\ HistoryOf(inst[w].pk) # << >>)
          => StatsMatch(inst'[w], HistoryOf(inst[w].pk))]_vars

\* The references of the row an update request asks for: those the
\* request carries, and for the rest those the listing had.
ResultingRefs(w) ==
    [k \in RefFields |->
        IF k \in DOMAIN op[w].attrs THEN op[w].attrs[k] ELSE op[w].pre[k]]

\* C29: an update whose resulting listing would have neither or both of
\* product and service, or neither town nor market, ends in a
\* ValidationError, and the listing row is as it was (stated for prices
\* that are not negative).
UpdateJudgedByResult ==
    \A w \in Workers :
        (/\ lastDone = w
         /\ op[w].kind = "update"
         /\ op[w].existed
         /\ op[w].price >= 0
         /\ op[w].pre.price >= 0
         /\ ~(ExactlyOneStem(ResultingRefs(w)) /\ HasGeoAnchor(ResultingRefs(w))))
        => /\ op[w].result = "validation_error"
           /\ op[w].rows = {}

\* C30: whenever no save is in progress (and none has raised, nothing was
\* deleted), the most recently inserted PriceHistory row of every listing
\* carries the listing's stored price and currency, and the stored price
\* lies between lowest_price and highest_price.
LatestRowIsCurrentPrice ==
    (Busy = {} /\ disturbances = 0) =>
        \A l \in DOMAIN listing :
            LET rows == HistoryOf(l) IN
            /\ rows # << >>
            /\ rows[Len(rows)].price = listing[l].price
            /\ rows[Len(rows)].currency = listing[l].currency
            /\ listing[l].lowest_price <= listing[l].price
            /\ listing[l].price <= listing[l].highest_price

====
